---- MODULE Spec2Model ----
(***************************************************************************)
(* A model of normits_demand.tools.trip_length_distributions.builder:      *)
(* TripLengthDistributionBuilder.  Six specifications share one set of     *)
(* variables:                                                              *)
(*   SpecCD     _build_cost_distribution applied to bounded inputs, twice  *)
(*   SpecTLD    build_tld, one step per segment of the segmentation        *)
(*   SpecGen    __init__ followed by the steps of tld_generator: the       *)
(*              columns they read and the files they write                 *)
(*   SpecGeo    _apply_geo_filter and _apply_od_geo_filter                 *)
(*   SpecFilter _filter_nts_data applied to bounded inputs                 *)
(*   SpecCopy   build_output_path, copy_across_tps and copy_tlds           *)
(* Distances are integers in the input unit (miles); a converted distance, *)
(* a weighted mean and a midpoint are exact rationals [n, d], and d = 0    *)
(* stands for the non-finite result of a floating point division by zero.  *)
(***************************************************************************)
EXTENDS Integers, Sequences, FiniteSets, TLC

VARIABLES
    cd_pc,        \* SpecCD: "call" before _build_cost_distribution, "done" after
    cd_data,      \* its argument `data`: a sequence of rows [trip_mile, trips]
    cd_edges,     \* its argument `band_edges`
    cd_units,     \* its argument `output_cost_units`
    cd_result,    \* the CostDistribution it returns
    cd_result2,   \* the CostDistribution a second call on the same arguments returns
    tld_pc,       \* SpecTLD: "loop" inside build_tld's for loop, then "returned" or "error"
    tld_data,     \* build_tld's argument `tld_data`: the geo/time filtered rows
    bands,        \* its argument `bands`: a table of rows [lower, upper]
    segmentation, \* its argument `segmentation`: the segment_params it yields, in order
    cost_units,   \* its argument `cost_units`
    sample_threshold,      \* its argument `sample_threshold`
    seg_i,        \* the position of the for loop in the segmentation
    name_to_distribution,  \* dict: tld name -> CostDistribution
    sample_size_log,       \* list of log lines
    full_export,  \* list of per segment frames, then the concatenated table
    warnings,     \* the calls of LOG.warning, in order
    gen_pc,       \* SpecGen: the position in __init__ / tld_generator
    nts_import,   \* the columns of self.nts_import, the survey extract as read
    nts_data,     \* the columns of tld_generator's local nts_data
    gen_segmentation,      \* tld_generator's argument `segmentation`
    gen_error,    \* the exception that ended the run, "none" without one
    gen_trip_filter, \* the trip_filter_type argument of tld_generator
    gen_files,    \* the output files written so far, in the order of writing
    geo_pc,       \* SpecGeo: the position in _apply_geo_filter / _apply_od_geo_filter
    geo_nts_data, \* the caller's record set, the argument `nts_data`
    geo_area,     \* the argument `geo_area`
    trip_filter_type,      \* the argument `trip_filter_type`
    output_data,  \* the local `output_data`, returned at the end
    geo_error,    \* the ValueError raised, "none" without one
    flt_pc,       \* SpecFilter: "call" before _filter_nts_data, "done" after
    flt_nts_data, \* its argument `nts_data`
    flt_params,   \* its argument `segment_params`
    flt_result,   \* the record set it returns
    cp_pc,        \* SpecCopy: the position in copy_across_tps / copy_tlds
    cp_args,      \* the arguments of the call
    disk,         \* the files that exist, as paths
    copy_files,   \* the list of (src, dst) pairs handed to the copy helper
    copy_pending, \* the positions of copy_files not yet attempted
    copy_failed,  \* the positions of copy_files whose copy failed
    base_path,    \* the directory build_output_path returned
    copy_report   \* the failures reported when the copy operation ends

cdVars == <<cd_pc, cd_data, cd_edges, cd_units, cd_result, cd_result2>>

tldVars == <<tld_pc, tld_data, bands, segmentation, cost_units, sample_threshold,
             seg_i, name_to_distribution, sample_size_log, full_export, warnings>>

genVars == <<gen_pc, nts_import, nts_data, gen_segmentation, gen_error, gen_trip_filter,
            gen_files>>

geoVars == <<geo_pc, geo_nts_data, geo_area, trip_filter_type, output_data, geo_error>>

fltVars == <<flt_pc, flt_nts_data, flt_params, flt_result>>

cpVars == <<cp_pc, cp_args, disk, copy_files, copy_pending, copy_failed, base_path,
           copy_report>>

vars == <<cdVars, tldVars, genVars, geoVars, fltVars, cpVars>>

-----------------------------------------------------------------------------
(* Bounds of the model *)

MaxRows == 3

\* rows of build_tld's input, and the largest sample threshold
MaxTldRows == 3

MaxThreshold == 2

\* rows of the geo filter's input
MaxGeoRows == 2

\* rows of the segment filter's input
MaxFltRows == 2

\* distances (input unit) and trip counts (expansion weights) of a row
DistVals == {0, 1, 2, 3}

CountVals == {-5, 5, 10}

\* band edge arrays handed to _build_cost_distribution, in output units;
\* the last one is not increasing
EdgeSets == {<<0, 2, 5>>, <<0, 1>>, <<-1, 2, 4>>, <<1, 3>>, <<0, 3, 2>>}

CostUnits == {"miles", "km"}

-----------------------------------------------------------------------------
(* Exact rationals *)

Rat(n, d) == [n |-> n, d |-> d]

Finite(r) == r.d # 0

\* comparisons of finite rationals, either sign of the denominators
Sign(x) == IF x < 0 THEN -1 ELSE 1

RatLt(a, b) == a.n * b.d * Sign(a.d) * Sign(b.d) < b.n * a.d * Sign(a.d) * Sign(b.d)

RatEq(a, b) == a.n * b.d = b.n * a.d

RatLe(a, b) == RatLt(a, b) \/ RatEq(a, b)

RECURSIVE SumSeq(_)
SumSeq(s) == IF s = <<>> THEN 0 ELSE Head(s) + SumSeq(Tail(s))

-----------------------------------------------------------------------------
(* _build_cost_distribution *)

\* CostUnits.MILES.get_conversion_factor(output_cost_units): 1 for miles;
\* for kilometres the rational 8/5 stands for 1.609344, which keeps the
\* products of the model inside TLC's 32 bit integers
GetConversionFactor(output_cost_units) ==
    IF output_cost_units = "km" THEN Rat(8, 5) ELSE Rat(1, 1)

\* mutant: the distances stay in the input unit
NoConversion(data, conv_factor) ==
    [i \in DOMAIN data |->
        [data[i] EXCEPT !.trip_mile = Rat(data[i].trip_mile * conv_factor.d, conv_factor.d)]]

\* data[trip_dist_col] *= conv_factor
ConvertDistances(data, conv_factor) ==
    [i \in DOMAIN data |->
        [data[i] EXCEPT !.trip_mile = Rat(data[i].trip_mile * conv_factor.n, conv_factor.d)]]

\* func_utils.pairwise(band_edges)
Pairwise(band_edges) ==
    [i \in 1 .. (Len(band_edges) - 1) |-> <<band_edges[i], band_edges[i + 1]>>]

\* mutants of the mask: a half-open band and a closed band
InBandMaskHalfOpen(row, lower, upper) ==
    RatLe(Rat(lower, 1), row.trip_mile) /\ RatLt(row.trip_mile, Rat(upper, 1))

InBandMaskClosed(row, lower, upper) ==
    RatLe(Rat(lower, 1), row.trip_mile) /\ RatLe(row.trip_mile, Rat(upper, 1))

\* mask = (data[trip_dist_col] > lower) & (data[trip_dist_col] < upper)
InBandMask(row, lower, upper) ==
    RatLt(Rat(lower, 1), row.trip_mile) /\ RatLt(row.trip_mile, Rat(upper, 1))

\* band_data = data[mask].copy()
BandData(data, lower, upper) ==
    SelectSeq(data, LAMBDA row : InBandMask(row, lower, upper))

\* mutant: the number of rows of the band instead of the sum of their counts
BandTripsRowCount(band_data) == Len(band_data)

\* band_trips = band_data[trip_count_col].values.sum()
BandTrips(band_data) ==
    SumSeq([i \in DOMAIN band_data |-> band_data[i].trips])

\* band_distance = np.sum(counts * distances): the numerator over the
\* common denominator conv_factor.d of the converted distances
BandDistance(band_data) ==
    SumSeq([i \in DOMAIN band_data |-> band_data[i].trips * band_data[i].trip_mile.n])

\* mutant: the fallback is the band's lower edge instead of its midpoint
BandMeanCostLowerEdge(band_distance, band_trips, conv_den, lower, upper) ==
    IF band_distance <= 0
    THEN Rat(lower, 1)
    ELSE Rat(band_distance, conv_den * band_trips)

\* mutant: the weighted distance is not divided by the band's trips
BandMeanCostUndivided(band_distance, band_trips, conv_den, lower, upper) ==
    IF band_distance <= 0
    THEN Rat(lower + upper, 2)
    ELSE Rat(band_distance, conv_den)

\* the if/else choosing the band's mean cost
BandMeanCost(band_distance, band_trips, conv_den, lower, upper) ==
    IF band_distance <= 0
    THEN Rat(lower + upper, 2)
    ELSE Rat(band_distance, conv_den * band_trips)

\* mutant: the sample size is the weighted number of trips
SampleSizeWeighted(data) == SumSeq([i \in DOMAIN data |-> data[i].trips])

\* sample_size = len(data)
SampleSize(data) == Len(data)

BuildCostDistribution(data_in, band_edges, output_cost_units) ==
    LET sample_size == SampleSize(data_in)
        conv_factor == GetConversionFactor(output_cost_units)
        data        == ConvertDistances(data_in, conv_factor)
        pairs       == Pairwise(band_edges)
        band(i)     == BandData(data, pairs[i][1], pairs[i][2])
    IN  [edges          |-> band_edges,
         band_trips     |-> [i \in DOMAIN pairs |-> BandTrips(band(i))],
         cost_units     |-> output_cost_units,
         band_mean_cost |-> [i \in DOMAIN pairs |->
                                BandMeanCost(BandDistance(band(i)), BandTrips(band(i)),
                                             conv_factor.d, pairs[i][1], pairs[i][2])],
         sample_size    |-> sample_size]

-----------------------------------------------------------------------------
(* SpecCD: the function applied to every bounded input *)

RowsCD == [trip_mile : DistVals, trips : CountVals]

SeqsUpTo(S, n) == UNION {[1 .. k -> S] : k \in 0 .. n}

NoResult == [edges |-> <<>>, band_trips |-> <<>>, cost_units |-> "none",
             band_mean_cost |-> <<>>, sample_size |-> 0]

IdleCD ==
    /\ cd_pc = "idle"
    /\ cd_data = <<>>
    /\ cd_edges = <<>>
    /\ cd_units = "none"
    /\ cd_result = NoResult
    /\ cd_result2 = NoResult

IdleTLD ==
    /\ tld_pc = "idle"
    /\ tld_data = <<>>
    /\ bands = <<>>
    /\ segmentation = <<>>
    /\ cost_units = "none"
    /\ sample_threshold = 0
    /\ seg_i = 0
    /\ name_to_distribution = <<>>
    /\ sample_size_log = <<>>
    /\ full_export = <<>>
    /\ warnings = <<>>

IdleGen ==
    /\ gen_pc = "idle"
    /\ nts_import = {}
    /\ nts_data = {}
    /\ gen_segmentation = <<>>
    /\ gen_error = "none"
    /\ gen_trip_filter = "none"
    /\ gen_files = <<>>

NoError == [message |-> "none", mode |-> "none"]

IdleGeo ==
    /\ geo_pc = "idle"
    /\ geo_nts_data = <<>>
    /\ geo_area = "none"
    /\ trip_filter_type = "none"
    /\ output_data = <<>>
    /\ geo_error = NoError

IdleFilter ==
    /\ flt_pc = "idle"
    /\ flt_nts_data = <<>>
    /\ flt_params = <<>>
    /\ flt_result = <<>>

IdleCopy ==
    /\ cp_pc = "idle"
    /\ cp_args = <<>>
    /\ disk = {}
    /\ copy_files = <<>>
    /\ copy_pending = {}
    /\ copy_failed = {}
    /\ base_path = <<>>
    /\ copy_report = {}

InitCD ==
    /\ IdleTLD
    /\ IdleGen
    /\ IdleGeo
    /\ IdleFilter
    /\ IdleCopy
    /\ cd_pc = "call"
    /\ cd_data \in SeqsUpTo(RowsCD, MaxRows)
    /\ cd_edges \in EdgeSets
    /\ cd_units \in CostUnits
    /\ cd_result = NoResult
    /\ cd_result2 = NoResult

\* mutant: without the copy the conversion is done on the caller's frame
\* (whose distance column keeps whole numbers)
CallerDataAfterInPlace(data_in, output_cost_units) ==
    LET conv_factor == GetConversionFactor(output_cost_units)
    IN  [i \in DOMAIN data_in |->
            [data_in[i] EXCEPT
                !.trip_mile = (data_in[i].trip_mile * conv_factor.n) \div conv_factor.d]]

\* data = data.copy(): the conversion works on a copy, the caller's frame
\* is what it was
CallerDataAfter(data_in, output_cost_units) == data_in

CallBuildCostDistribution ==
    /\ cd_pc = "call"
    /\ cd_result' = BuildCostDistribution(cd_data, cd_edges, cd_units)
    /\ cd_data' = CallerDataAfter(cd_data, cd_units)
    /\ cd_pc' = "done"
    /\ UNCHANGED <<cd_edges, cd_units, cd_result2>>
    /\ UNCHANGED <<tldVars, genVars, geoVars, fltVars, cpVars>>

\* the same call once more, on what the first call left of its arguments
CallBuildCostDistributionAgain ==
    /\ cd_pc = "done"
    /\ cd_result2' = BuildCostDistribution(cd_data, cd_edges, cd_units)
    /\ cd_data' = CallerDataAfter(cd_data, cd_units)
    /\ cd_pc' = "done2"
    /\ UNCHANGED <<cd_edges, cd_units, cd_result>>
    /\ UNCHANGED <<tldVars, genVars, geoVars, fltVars, cpVars>>

NextCD == CallBuildCostDistribution \/ CallBuildCostDistributionAgain

SpecCD == InitCD /\ [][NextCD]_vars

-----------------------------------------------------------------------------
(* Properties of _build_cost_distribution, checked under SpecCD *)

RECURSIVE SumOver(_, _)
SumOver(S, f) ==
    IF S = {} THEN 0
    ELSE LET i == CHOOSE j \in S : TRUE IN f[i] + SumOver(S \ {i}, f)

StrictlyIncreasing(e) == \A i \in 1 .. (Len(e) - 1) : e[i] < e[i + 1]

CdBands == 1 .. (Len(cd_edges) - 1)

\* the converted distance of row i of the input, as a rational
CdDist(i) ==
    Rat(cd_data[i].trip_mile * GetConversionFactor(cd_units).n,
        GetConversionFactor(cd_units).d)

\* the bands in which the function counts row i
BandsOfRow(i) ==
    {b \in CdBands :
        Len(BandData(ConvertDistances(<<cd_data[i]>>, GetConversionFactor(cd_units)),
                     cd_edges[b], cd_edges[b + 1])) = 1}

OnEdge(i) == \E k \in DOMAIN cd_edges : RatEq(CdDist(i), Rat(cd_edges[k], 1))

Outside(i) ==
    \/ RatLt(CdDist(i), Rat(cd_edges[1], 1))
    \/ RatLt(Rat(cd_edges[Len(cd_edges)], 1), CdDist(i))

\* the rows strictly inside band b, by arithmetic on the input alone
RowsInside(b) ==
    {i \in DOMAIN cd_data :
        /\ cd_edges[b] * GetConversionFactor(cd_units).d
              < cd_data[i].trip_mile * GetConversionFactor(cd_units).n
        /\ cd_data[i].trip_mile * GetConversionFactor(cd_units).n
              < cd_edges[b + 1] * GetConversionFactor(cd_units).d}

TripsInside(b) == SumOver(RowsInside(b), [i \in DOMAIN cd_data |-> cd_data[i].trips])

\* sum(count * distance) over the rows inside band b, times the common denominator
WeightedInside(b) ==
    SumOver(RowsInside(b),
            [i \in DOMAIN cd_data |->
                cd_data[i].trips * cd_data[i].trip_mile * GetConversionFactor(cd_units).n])

TotalTrips == SumSeq([i \in DOMAIN cd_data |-> cd_data[i].trips])

\* C1: with strictly increasing edges every record is counted in at most one
\* band, and a record whose converted distance equals an edge is counted in
\* no band; for a single record the band totals add up to its count or to 0.
C1_AtMostOneBand ==
    (cd_pc = "done" /\ StrictlyIncreasing(cd_edges)) =>
        /\ \A i \in DOMAIN cd_data :
              /\ Cardinality(BandsOfRow(i)) <= 1
              /\ OnEdge(i) => BandsOfRow(i) = {}
        /\ Len(cd_data) = 1 =>
              SumSeq(cd_result.band_trips) =
                  IF BandsOfRow(1) = {} THEN 0 ELSE cd_data[1].trips
        /\ (\A i \in DOMAIN cd_data : OnEdge(i)) =>
              \A b \in CdBands : cd_result.band_trips[b] = 0

C1_Witness ==
    /\ cd_pc = "done"
    /\ cd_edges = <<0, 2, 5>>
    /\ cd_units = "miles"
    /\ Len(cd_data) = 2
    /\ cd_data[1] = [trip_mile |-> 2, trips |-> 10]
    /\ cd_data[2] = [trip_mile |-> 1, trips |-> 5]
    /\ cd_result.band_trips = <<5, 0>>

\* C2 as stated: the band totals never exceed the total trip count of the
\* input, and equal it when no record is on an edge or outside the edges.
C2_Original ==
    (cd_pc = "done" /\ StrictlyIncreasing(cd_edges)) =>
        /\ SumSeq(cd_result.band_trips) <= TotalTrips
        /\ (\A i \in DOMAIN cd_data : ~OnEdge(i) /\ ~Outside(i)) =>
              SumSeq(cd_result.band_trips) = TotalTrips

\* C2 amended: with strictly increasing edges the band totals never exceed
\* the total trip count when no trip count is negative, and equal it (for
\* any counts) when no record is on an edge or outside the edges.
C2_BandTripsBounded ==
    (cd_pc = "done" /\ StrictlyIncreasing(cd_edges)) =>
        /\ (\A i \in DOMAIN cd_data : cd_data[i].trips >= 0) =>
              SumSeq(cd_result.band_trips) <= TotalTrips
        /\ (\A i \in DOMAIN cd_data : ~OnEdge(i) /\ ~Outside(i)) =>
              SumSeq(cd_result.band_trips) = TotalTrips

C2_Witness ==
    /\ cd_pc = "done"
    /\ cd_edges = <<0, 2, 5>>
    /\ cd_units = "miles"
    /\ cd_data = <<[trip_mile |-> 1, trips |-> 10], [trip_mile |-> 2, trips |-> 5],
                   [trip_mile |-> 3, trips |-> 5]>>
    /\ SumSeq(cd_result.band_trips) = 15
    /\ TotalTrips = 20

\* C3: every band reports the sum of the counts of the rows strictly inside
\* it and, when the weighted distance of those rows is positive, the
\* count-weighted mean weighted distance / band trips (not finite when the
\* band trips are 0); the spec's scenario gives trips 20, mean 1 and trips
\* 5, mean 3.
C3_WeightedMean ==
    cd_pc = "done" =>
        /\ Len(cd_result.band_trips) = Len(cd_edges) - 1
        /\ Len(cd_result.band_mean_cost) = Len(cd_edges) - 1
        /\ \A b \in CdBands :
              /\ cd_result.band_trips[b] = TripsInside(b)
              /\ (WeightedInside(b) > 0 /\ TripsInside(b) # 0) =>
                    /\ Finite(cd_result.band_mean_cost[b])
                    /\ cd_result.band_mean_cost[b].n
                          * GetConversionFactor(cd_units).d * TripsInside(b)
                       = WeightedInside(b) * cd_result.band_mean_cost[b].d
              /\ (WeightedInside(b) > 0 /\ TripsInside(b) = 0) =>
                    ~Finite(cd_result.band_mean_cost[b])
        /\ (/\ cd_edges = <<0, 2, 5>>
            /\ cd_units = "miles"
            /\ cd_data = <<[trip_mile |-> 1, trips |-> 10], [trip_mile |-> 1, trips |-> 10],
                           [trip_mile |-> 3, trips |-> 5]>>) =>
              /\ cd_result.band_trips = <<20, 5>>
              /\ RatEq(cd_result.band_mean_cost[1], Rat(1, 1))
              /\ RatEq(cd_result.band_mean_cost[2], Rat(3, 1))

\* band (2, 5) km holds the rows of 2 and 3 miles: the weighted mean is
\* 56/15 km, the simple average of the two distances would be 4 km
C3_Witness ==
    /\ cd_pc = "done"
    /\ cd_edges = <<0, 2, 5>>
    /\ cd_units = "km"
    /\ cd_data = <<[trip_mile |-> 2, trips |-> 10], [trip_mile |-> 3, trips |-> 5]>>
    /\ cd_result.band_trips = <<0, 15>>
    /\ RatEq(cd_result.band_mean_cost[2], Rat(56, 15))
    /\ ~RatEq(cd_result.band_mean_cost[2], Rat(4, 1))

\* C4: a band whose weighted distance is <= 0 gets the midpoint of the band
\* as its mean cost, and its trips are still the sum of the counts of the
\* selected rows, 0 for a band without rows.
C4_MidpointFallback ==
    cd_pc = "done" =>
        \A b \in CdBands :
            WeightedInside(b) <= 0 =>
                /\ Finite(cd_result.band_mean_cost[b])
                /\ 2 * cd_result.band_mean_cost[b].n
                      = (cd_edges[b] + cd_edges[b + 1]) * cd_result.band_mean_cost[b].d
                /\ cd_result.band_trips[b] = TripsInside(b)
                /\ RowsInside(b) = {} => cd_result.band_trips[b] = 0

C4_Witness ==
    /\ cd_pc = "done"
    /\ cd_edges = <<0, 1>>
    /\ Len(cd_data) = 2
    /\ RowsInside(1) = {}
    /\ cd_result.band_trips = <<0>>
    /\ RatEq(cd_result.band_mean_cost[1], Rat(1, 2))

\* C5 as stated: for any trip counts and distances every band mean is a
\* finite number (no division by a zero band total).
C5_AllMeansFinite ==
    cd_pc = "done" =>
        \A b \in CdBands : Finite(cd_result.band_mean_cost[b])


RowsConvertedInside(b) ==
    {i \in DOMAIN cd_data :
        /\ RatLt(Rat(cd_edges[b], 1), CdDist(i))
        /\ RatLt(CdDist(i), Rat(cd_edges[b + 1], 1))}

\* the rows whose raw distance is strictly between the edges of band b
RowsRawInside(b) ==
    {i \in DOMAIN cd_data :
        cd_edges[b] < cd_data[i].trip_mile /\ cd_data[i].trip_mile < cd_edges[b + 1]}

CdTrips == [i \in DOMAIN cd_data |-> cd_data[i].trips]

CdRawWeighted == [i \in DOMAIN cd_data |-> cd_data[i].trips * cd_data[i].trip_mile]

\* C25: the trips of a band are those of the rows whose converted distance
\* (raw distance times the conversion factor) is strictly inside the band,
\* the edges being in the output unit, and a weighted mean is the raw
\* weighted mean of those rows times the factor; with output unit = input
\* unit both are those of the raw distances.
C25_ConvertedBeforeBanding ==
    cd_pc = "done" =>
        LET f == GetConversionFactor(cd_units)
        IN  /\ cd_result.cost_units = cd_units
            /\ \A b \in CdBands :
                  LET rows     == RowsConvertedInside(b)
                      trips    == SumOver(rows, CdTrips)
                      weighted == SumOver(rows, CdRawWeighted)
                  IN  /\ cd_result.band_trips[b] = trips
                      /\ (weighted > 0 /\ trips # 0) =>
                            RatEq(cd_result.band_mean_cost[b], Rat(weighted * f.n, trips * f.d))
                      /\ cd_units = "miles" =>
                            /\ rows = RowsRawInside(b)
                            /\ (weighted > 0 /\ trips # 0) =>
                                  RatEq(cd_result.band_mean_cost[b], Rat(weighted, trips))

\* a row of 2 miles is on the edge 2 as a raw distance and inside the band
\* (2, 5) km once converted
C25_Witness ==
    /\ cd_pc = "done"
    /\ cd_units = "km"
    /\ cd_edges = <<0, 2, 5>>
    /\ cd_data = <<[trip_mile |-> 2, trips |-> 10], [trip_mile |-> 1, trips |-> 5]>>
    /\ RowsRawInside(2) = {}
    /\ cd_result.band_trips = <<5, 10>>
    /\ RatEq(cd_result.band_mean_cost[2], Rat(16, 5))

\* C27: with no negative trip count, the mean cost of every band with
\* lower < upper is strictly between the band's edges, for the weighted mean
\* and for the midpoint fallback.
C27_MeanInsideBand ==
    (cd_pc = "done" /\ \A i \in DOMAIN cd_data : cd_data[i].trips >= 0) =>
        \A b \in CdBands :
            cd_edges[b] < cd_edges[b + 1] =>
                /\ Finite(cd_result.band_mean_cost[b])
                /\ RatLt(Rat(cd_edges[b], 1), cd_result.band_mean_cost[b])
                /\ RatLt(cd_result.band_mean_cost[b], Rat(cd_edges[b + 1], 1))

\* band (0, 2) has a weighted mean, band (2, 5) the midpoint
C27_Witness ==
    /\ cd_pc = "done"
    /\ cd_units = "miles"
    /\ cd_edges = <<0, 2, 5>>
    /\ cd_data = <<[trip_mile |-> 1, trips |-> 10], [trip_mile |-> 1, trips |-> 5]>>
    /\ RatEq(cd_result.band_mean_cost[1], Rat(1, 1))
    /\ RatEq(cd_result.band_mean_cost[2], Rat(7, 2))

-----------------------------------------------------------------------------
(* _filter_nts_data *)

\* a segment_params dict is the sequence of its (seg_name, seg_val) items in
\* insertion order; every categorical value is a string and "NaN" is np.nan

\* mutant: the home based group misses the returning direction
ToDictHbFromOnly(seg_val) ==
    CASE seg_val = "hb"  -> {"hb_from"}
      [] seg_val = "nhb" -> {"nhb"}

\* to_dict = {"hb": ["hb_to", "hb_from"], "nhb": ["nhb"]}
ToDict(seg_val) ==
    CASE seg_val = "hb"  -> {"hb_to", "hb_from"}
      [] seg_val = "nhb" -> {"nhb"}

\* nd_core.UserClass(seg_val).get_purposes()
GetPurposes(seg_val) ==
    CASE seg_val = "commute"  -> {"1"}
      [] seg_val = "business" -> {"2"}
      [] seg_val = "other"    -> {"3", "4"}

\* mutant: a NaN value is filtered on like any other value
IsNanNever(seg_val) == FALSE

\* np.isnan(seg_val)
IsNan(seg_val) == seg_val = "NaN"

\* the loop building df_filter: a dict column -> accepted values, an
\* assignment to a key already present replacing its value
RECURSIVE BuildDfFilter(_, _)
BuildDfFilter(segment_params, df_filter) ==
    IF segment_params = <<>> THEN df_filter
    ELSE LET seg_name == Head(segment_params)[1]
             seg_val  == Head(segment_params)[2]
             updated  ==
                 IF seg_name = "trip_origin"
                 THEN (seg_name :> ToDict(seg_val)) @@ df_filter
                 ELSE IF seg_name = "uc"
                 THEN ("p" :> GetPurposes(seg_val)) @@ df_filter
                 ELSE IF seg_name \in {"soc", "ns"}
                 THEN IF ~IsNan(seg_val)
                      THEN (seg_name :> {seg_val}) @@ df_filter
                      ELSE df_filter
                 ELSE (seg_name :> {seg_val}) @@ df_filter
         IN  BuildDfFilter(Tail(segment_params), updated)

\* pd_utils.filter_df(df, df_filter): the rows matching every item of the filter
FilterDf(df, df_filter) ==
    SelectSeq(df, LAMBDA row : \A col \in DOMAIN df_filter : row[col] \in df_filter[col])

FilterNtsData(nts_rows, segment_params) ==
    FilterDf(nts_rows, BuildDfFilter(segment_params, <<>>))

-----------------------------------------------------------------------------
(* build_tld *)

\* mutant: the name holds the trip origin and the description only
GenerateTldNameOriginOnly(segment_params) ==
    LET origins == SelectSeq(segment_params, LAMBDA item : item[1] = "trip_origin")
    IN  <<IF origins = <<>> THEN "None" ELSE origins[1][2], "cost_distribution">>

\* segmentation.generate_file_name(segment_params, trip_origin, "cost_distribution"):
\* the trip origin (or "None"), the description and the segment values
GenerateTldName(segment_params) ==
    LET origins == SelectSeq(segment_params, LAMBDA item : item[1] = "trip_origin")
        trip_origin == IF origins = <<>> THEN "None" ELSE origins[1][2]
    IN  <<trip_origin, "cost_distribution">>
            \o SelectSeq(segment_params, LAMBDA item : item[1] # "trip_origin")

\* CostDistribution.to_df(additional_cols=segment_params): one row per band
ToDf(tld, segment_params) ==
    [b \in DOMAIN tld.band_trips |->
        [segment_params |-> segment_params,
         lower          |-> tld.edges[b],
         upper          |-> tld.edges[b + 1],
         band_trips     |-> tld.band_trips[b],
         band_mean_cost |-> tld.band_mean_cost[b]]]

\* mutant: only the frame of the last passed segment is kept
PdConcatLastOnly(frames) ==
    IF frames = <<>> THEN <<>> ELSE frames[Len(frames)]

\* pd.concat(frames, ignore_index=True) of a non-empty list
RECURSIVE PdConcat(_)
PdConcat(frames) ==
    IF frames = <<>> THEN <<>> ELSE Head(frames) \o PdConcat(Tail(frames))

\* np.array([min_bounds[0]] + max_bounds.tolist())
BandEdges(bands_table) ==
    <<bands_table[1].lower>> \o [i \in DOMAIN bands_table |-> bands_table[i].upper]

\* mutant: a segment with exactly the threshold number of rows fails
SampleTooSmallInclusive(sample_size, threshold) == sample_size <= threshold

\* if sample_size < sample_threshold
SampleTooSmall(sample_size, threshold) == sample_size < threshold

\* mutant: an under-sampled segment ends the run
OnSampleFailureAbort == "error"

\* `continue`: the loop goes on with the next segment
OnSampleFailure == "loop"

\* mutant: an empty export list is returned as an empty table
ConsolidateOutcomeSilent(export_list) == "returned"

\* pd.concat raises ValueError("No objects to concatenate") on an empty list
ConsolidateOutcome(export_list) ==
    IF export_list = <<>> THEN "error" ELSE "returned"

\* mutant: without the copies the unit conversion of a passed segment is
\* done on the rows of the shared record set
TldDataAfterSegmentInPlace(shared, segment_params, threshold, units) ==
    LET df_filter == BuildDfFilter(segment_params, <<>>)
        hit(row)  == \A col \in DOMAIN df_filter : row[col] \in df_filter[col]
    IN  IF SampleTooSmall(Len(FilterNtsData(shared, segment_params)), threshold)
        THEN shared
        ELSE [i \in DOMAIN shared |->
                 IF hit(shared[i])
                 THEN CallerDataAfterInPlace(<<shared[i]>>, units)[1]
                 ELSE shared[i]]

\* tld_data.copy() before the filter and data.copy() in
\* _build_cost_distribution: the iteration works on copies, the shared
\* record set is what it was
TldDataAfterSegment(shared, segment_params, threshold, units) == shared

\* one iteration of `for segment_params in segmentation`
BuildTldSegment ==
    /\ tld_pc = "loop"
    /\ seg_i <= Len(segmentation)
    /\ LET segment_params == segmentation[seg_i]
           data_subset    == FilterNtsData(tld_data, segment_params)
           sample_size    == Len(data_subset)
           log_line       == [segment_params |-> segment_params,
                              records        |-> sample_size,
                              status         |-> "Passed"]
           tld            == BuildCostDistribution(data_subset, BandEdges(bands), cost_units)
       IN  IF SampleTooSmall(sample_size, sample_threshold)
           THEN /\ warnings' = Append(warnings,
                                      [segment_params   |-> segment_params,
                                       sample_threshold |-> sample_threshold,
                                       sample_size      |-> sample_size])
                /\ tld_pc' = OnSampleFailure
                /\ UNCHANGED <<sample_size_log, full_export, name_to_distribution>>
           ELSE /\ sample_size_log' = Append(sample_size_log, log_line)
                /\ full_export' = Append(full_export, ToDf(tld, segment_params))
                /\ name_to_distribution' =
                       (GenerateTldName(segment_params) :> tld) @@ name_to_distribution
                /\ tld_pc' = "loop"
                /\ UNCHANGED warnings
    /\ seg_i' = seg_i + 1
    /\ tld_data' = TldDataAfterSegment(tld_data, segmentation[seg_i], sample_threshold,
                                       cost_units)
    /\ UNCHANGED <<bands, segmentation, cost_units, sample_threshold>>
    /\ UNCHANGED <<cdVars, genVars, geoVars, fltVars, cpVars>>

\* the statements after the loop: consolidate the reports and return
BuildTldConsolidate ==
    /\ tld_pc = "loop"
    /\ seg_i > Len(segmentation)
    /\ tld_pc' = ConsolidateOutcome(full_export)
    /\ full_export' = IF tld_pc' = "returned" THEN PdConcat(full_export) ELSE full_export
    /\ UNCHANGED <<tld_data, bands, segmentation, cost_units, sample_threshold, seg_i,
                   name_to_distribution, sample_size_log, warnings>>
    /\ UNCHANGED <<cdVars, genVars, geoVars, fltVars, cpVars>>

TldRows ==
    {[trip_origin |-> "hb_from", p |-> "1", soc |-> "1",   ns |-> "NaN", trip_mile |-> 1, trips |-> 10],
     [trip_origin |-> "hb_to",   p |-> "1", soc |-> "2",   ns |-> "NaN", trip_mile |-> 3, trips |-> 5],
     [trip_origin |-> "hb_from", p |-> "2", soc |-> "NaN", ns |-> "NaN", trip_mile |-> 2, trips |-> 5],
     [trip_origin |-> "nhb",     p |-> "1", soc |-> "1",   ns |-> "NaN", trip_mile |-> 1, trips |-> 5],
     [trip_origin |-> "nhb",     p |-> "3", soc |-> "NaN", ns |-> "NaN", trip_mile |-> 3, trips |-> 10],
     [trip_origin |-> "hb_to",   p |-> "3", soc |-> "1",   ns |-> "NaN", trip_mile |-> 0, trips |-> 5]}

\* bands tables: two bands, one band, and a table whose first row does not
\* hold the smallest lower value
BandTables ==
    {<<[lower |-> 0, upper |-> 2], [lower |-> 2, upper |-> 5]>>,
     <<[lower |-> 0, upper |-> 1]>>,
     <<[lower |-> 1, upper |-> 2], [lower |-> 0, upper |-> 5]>>}

Segmentations ==
    {<<>>,
     << << <<"trip_origin", "hb">>,  <<"p", "1">> >>,
        << <<"trip_origin", "hb">>,  <<"p", "2">> >>,
        << <<"trip_origin", "nhb">>, <<"p", "1">> >> >>,
     << << <<"trip_origin", "hb">>,  <<"uc", "commute">> >>,
        << <<"trip_origin", "hb">>,  <<"uc", "business">> >>,
        << <<"trip_origin", "nhb">>, <<"uc", "other">> >> >>,
     << << <<"p", "1">>, <<"soc", "NaN">> >>,
        << <<"p", "1">>, <<"soc", "1">> >>,
        << <<"p", "3">>, <<"soc", "1">> >> >>}

InitTLD ==
    /\ IdleCD
    /\ IdleGen
    /\ IdleGeo
    /\ IdleFilter
    /\ IdleCopy
    /\ tld_pc = "loop"
    /\ tld_data \in SeqsUpTo(TldRows, MaxTldRows)
    /\ bands \in BandTables
    /\ segmentation \in Segmentations
    /\ cost_units \in CostUnits
    /\ sample_threshold \in 0 .. MaxThreshold
    /\ seg_i = 1
    /\ name_to_distribution = <<>>
    /\ sample_size_log = <<>>
    /\ full_export = <<>>
    /\ warnings = <<>>

NextTLD == BuildTldSegment \/ BuildTldConsolidate

SpecTLD == InitTLD /\ [][NextTLD]_vars

-----------------------------------------------------------------------------
(* Properties of build_tld, checked under SpecTLD *)

TldRunning == tld_pc \in {"loop", "returned", "error"}

\* the segments the loop has been through
Processed == 1 .. (seg_i - 1)

\* the unweighted number of rows of segment k
SegRows(k) == Len(FilterNtsData(tld_data, segmentation[k]))

\* the rows of the consolidated export, before and after pd.concat
ExportRows == IF tld_pc = "returned" THEN full_export ELSE PdConcat(full_export)

HasExport(k) ==
    \E r \in DOMAIN ExportRows : ExportRows[r].segment_params = segmentation[k]

HasDistribution(k) == GenerateTldName(segmentation[k]) \in DOMAIN name_to_distribution

\* C6 as stated: after build_tld the log holds one entry per segment of the
\* segmentation, in order, with its row count, the status being 'Failed'
\* for a segment below the threshold.
C6_LogHasEverySegment ==
    tld_pc = "returned" =>
        /\ Len(sample_size_log) = Len(segmentation)
        /\ \A k \in DOMAIN segmentation :
              /\ sample_size_log[k].segment_params = segmentation[k]
              /\ sample_size_log[k].records = SegRows(k)
              /\ sample_size_log[k].status =
                     IF SegRows(k) < sample_threshold THEN "Failed" ELSE "Passed"

\* C7: a segment passes (a distribution and export rows exist for it) iff
\* its unweighted row count is at least sample_threshold; exactly the
\* threshold passes, one row less fails.
C7_ThresholdBoundary ==
    TldRunning =>
        \A k \in Processed :
            /\ SegRows(k) >= sample_threshold => HasExport(k) /\ HasDistribution(k)
            /\ SegRows(k) < sample_threshold => ~HasExport(k) /\ ~HasDistribution(k)
            /\ SegRows(k) = sample_threshold => HasDistribution(k)
            /\ SegRows(k) = sample_threshold - 1 => ~HasDistribution(k)

C7_Witness ==
    /\ tld_pc = "returned"
    /\ sample_threshold = 2
    /\ \E k, j \in DOMAIN segmentation :
          /\ SegRows(k) = 2 /\ HasDistribution(k) /\ HasExport(k)
          /\ SegRows(j) = 1 /\ ~HasDistribution(j) /\ ~HasExport(j)

\* C8: a segment below the threshold does not end the run: it gets no
\* distribution and no export rows, every segment is checked (one warning or
\* one log line each), a later segment that passes is banded from its own
\* rows, and the run ends only after the last segment.
C8_FailureDoesNotAbort ==
    TldRunning =>
        /\ tld_pc \in {"returned", "error"} => seg_i = Len(segmentation) + 1
        /\ Len(warnings) + Len(sample_size_log) = seg_i - 1
        /\ \A k \in Processed :
              SegRows(k) < sample_threshold =>
                  /\ ~HasExport(k)
                  /\ ~HasDistribution(k)
                  /\ \E w \in DOMAIN warnings : warnings[w].segment_params = segmentation[k]
                  /\ \A j \in Processed :
                        (j > k /\ SegRows(j) >= sample_threshold) =>
                            /\ HasExport(j)
                            /\ HasDistribution(j)
                            /\ name_to_distribution[GenerateTldName(segmentation[j])].sample_size
                                   = SegRows(j)

C8_Witness ==
    /\ tld_pc = "returned"
    /\ \E k, j \in DOMAIN segmentation :
          /\ k < j
          /\ SegRows(k) < sample_threshold /\ ~HasExport(k)
          /\ SegRows(j) >= sample_threshold /\ HasExport(j)

NonePassed == \A k \in DOMAIN segmentation : SegRows(k) < sample_threshold

\* C9: when no segment passes the threshold (also when the segmentation
\* yields no segment) build_tld ends in an error and returns nothing; it
\* returns only when some segment passed.
C9_NoPassIsError ==
    /\ tld_pc = "returned" => ~NonePassed /\ full_export # <<>>
    /\ tld_pc = "error" => NonePassed /\ full_export = <<>>
    /\ (tld_pc = "loop" /\ seg_i > Len(segmentation) /\ NonePassed) => full_export = <<>>

C9_Witness ==
    /\ tld_pc = "error"
    /\ Len(segmentation) = 3
    /\ Len(tld_data) = 3
    /\ Len(warnings) = 3
    /\ name_to_distribution = <<>>


\* the distribution of segment k as computed from the shared record set
ExpectedTld(k) ==
    BuildCostDistribution(FilterNtsData(tld_data, segmentation[k]), BandEdges(bands),
                          cost_units)

\* every distribution registered so far is the one its segment's rows give
DistributionsFromSharedData ==
    \A k \in Processed :
        SegRows(k) >= sample_threshold =>
            /\ HasDistribution(k)
            /\ name_to_distribution[GenerateTldName(segmentation[k])] = ExpectedTld(k)

PassedSegments ==
    SelectSeq(segmentation,
              LAMBDA sp : Len(FilterNtsData(tld_data, sp)) >= sample_threshold)

\* C18: after a normal return the consolidated export holds, for every
\* passed segment in the enumerator's order, one row per band of that
\* segment's distribution tagged with the segment's parameters, and nothing
\* else: (passed segments) x (bands) rows.
C18_ExportRows ==
    tld_pc = "returned" =>
        LET nb == Len(bands)
        IN  /\ Len(full_export) = Len(PassedSegments) * nb
            /\ \A j \in DOMAIN PassedSegments :
                  \A b \in 1 .. nb :
                      LET row == full_export[(j - 1) * nb + b]
                          tld == BuildCostDistribution(
                                     FilterNtsData(tld_data, PassedSegments[j]),
                                     BandEdges(bands), cost_units)
                      IN  /\ row.segment_params = PassedSegments[j]
                          /\ row.lower = BandEdges(bands)[b]
                          /\ row.upper = BandEdges(bands)[b + 1]
                          /\ row.band_trips = tld.band_trips[b]
                          /\ row.band_mean_cost = tld.band_mean_cost[b]

C18_Witness ==
    /\ tld_pc = "returned"
    /\ Len(segmentation) = 3
    /\ Len(PassedSegments) = 2
    /\ Len(bands) = 2
    /\ Len(full_export) = 4
    /\ full_export[1].segment_params # full_export[3].segment_params

\* the log entries of segment k
LogEntries(k) ==
    {n \in DOMAIN sample_size_log : sample_size_log[n].segment_params = segmentation[k]}

\* C24: the sample_size of every registered distribution is the number of
\* rows of its segment's filtered record set, whatever their distances and
\* trip counts, and it is the 'records' value of the segment's log entry.
C24_SampleSizeIsRowCount ==
    TldRunning =>
        \A k \in Processed :
            HasDistribution(k) =>
                LET tld == name_to_distribution[GenerateTldName(segmentation[k])]
                IN  /\ tld.sample_size = Len(FilterNtsData(tld_data, segmentation[k]))
                    /\ LogEntries(k) # {}
                    /\ \A n \in LogEntries(k) : sample_size_log[n].records = tld.sample_size

C24_Witness ==
    /\ tld_pc = "returned"
    /\ \E k \in Processed :
          /\ HasDistribution(k)
          /\ LET tld == name_to_distribution[GenerateTldName(segmentation[k])]
             IN  /\ tld.sample_size = 2
                 /\ SumSeq(tld.band_trips) = 5
                 /\ \E n \in LogEntries(k) : sample_size_log[n].records = 2

\* the segments the rows of the consolidated export are tagged with
ExportedSegments == {full_export[n].segment_params : n \in DOMAIN full_export}

\* C28: after a normal return the mapping has one entry per passed segment,
\* under that segment's name, holding the distribution built from that
\* segment's rows; the names of the segments are pairwise different and
\* the mapping and the export describe the same segments.
C28_OneEntryPerPassedSegment ==
    tld_pc = "returned" =>
        /\ Cardinality(DOMAIN name_to_distribution) = Len(PassedSegments)
        /\ \A j \in DOMAIN PassedSegments :
              /\ GenerateTldName(PassedSegments[j]) \in DOMAIN name_to_distribution
              /\ name_to_distribution[GenerateTldName(PassedSegments[j])] =
                     BuildCostDistribution(FilterNtsData(tld_data, PassedSegments[j]),
                                           BandEdges(bands), cost_units)
        /\ \A i, j \in DOMAIN segmentation :
              i # j => GenerateTldName(segmentation[i]) # GenerateTldName(segmentation[j])
        /\ ExportedSegments = {PassedSegments[j] : j \in DOMAIN PassedSegments}

C28_Witness ==
    /\ tld_pc = "returned"
    /\ Len(PassedSegments) = 3
    /\ Cardinality(DOMAIN name_to_distribution) = 3
    /\ \E i, j \in DOMAIN segmentation :
          /\ i < j
          /\ name_to_distribution[GenerateTldName(segmentation[i])].band_trips
                 # name_to_distribution[GenerateTldName(segmentation[j])].band_trips

\* the smallest value of the lower column
MinLower(bands_table) ==
    CHOOSE m \in {bands_table[i].lower : i \in DOMAIN bands_table} :
        \A i \in DOMAIN bands_table : m <= bands_table[i].lower

\* C23 as stated: the edges of every distribution build_tld registers are
\* min(lower) followed by the upper values in table order, one more than
\* there are band rows, whichever row holds the smallest lower value.
C23_EdgesFromMinLower ==
    TldRunning =>
        \A k \in Processed :
            HasDistribution(k) =>
                LET edges == name_to_distribution[GenerateTldName(segmentation[k])].edges
                IN  /\ Len(edges) = Len(bands) + 1
                    /\ edges[1] = MinLower(bands)
                    /\ \A i \in DOMAIN bands : edges[i + 1] = bands[i].upper

-----------------------------------------------------------------------------
(* _apply_geo_filter and _apply_od_geo_filter, SpecGeo *)

\* tld_enums.TripFilter: the three trip filters the builder knows, an OD
\* type filter it has no branch for and a filter that is not of OD type
TripFilters == {"trip_OD", "trip_O", "trip_D", "trip_OD_other", "household"}

\* TripFilter.is_od_type()
IsOdType(filter_type) == filter_type \in {"trip_OD", "trip_O", "trip_D", "trip_OD_other"}

GeoAreas == {"north", "gb"}

\* GeoArea.get_gors(): the region codes of the area
GetGors(area) == IF area = "north" THEN {1, 2} ELSE {1, 2, 3}

\* mutant: the destination is overwritten from the already swapped origin
TransposeRowNoTemp(row) ==
    IF row.trip_origin = "hb_to"
    THEN [row EXCEPT !.TripOrigGOR_B02ID = row.TripDestGOR_B02ID]
    ELSE row

\* lines 117-121 on one row: origin and destination exchanged under the mask
TransposeRow(row) ==
    IF row.trip_origin = "hb_to"
    THEN [row EXCEPT !.TripOrigGOR_B02ID = row.TripDestGOR_B02ID,
                     !.TripDestGOR_B02ID = row.TripOrigGOR_B02ID]
    ELSE row

\* mutant: the exchange is done on every row, the 'hb_to' mask is ignored
TransposeEveryRow(nts_rows) ==
    [i \in DOMAIN nts_rows |->
        [nts_rows[i] EXCEPT !.TripOrigGOR_B02ID = nts_rows[i].TripDestGOR_B02ID,
                            !.TripDestGOR_B02ID = nts_rows[i].TripOrigGOR_B02ID]]

\* output_data = nts_data.copy() followed by the transposition
Transpose(nts_rows) == [i \in DOMAIN nts_rows |-> TransposeRow(nts_rows[i])]

\* the caller's frame after the transposition: it was done on a copy
GeoCallerDataAfter(nts_rows) == nts_rows

\* mutant: a filter without a branch is applied as no filter at all
DecideFilterLenient(filter_type) ==
    CASE filter_type = "trip_OD" -> [known |-> TRUE, filter_orig |-> TRUE,  filter_dest |-> TRUE]
      [] filter_type = "trip_O"  -> [known |-> TRUE, filter_orig |-> TRUE,  filter_dest |-> FALSE]
      [] filter_type = "trip_D"  -> [known |-> TRUE, filter_orig |-> FALSE, filter_dest |-> TRUE]
      [] OTHER                   -> [known |-> TRUE, filter_orig |-> FALSE, filter_dest |-> FALSE]

\* "Decide how to filter": the if/elif chain and its else
DecideFilter(filter_type) ==
    CASE filter_type = "trip_OD" -> [known |-> TRUE,  filter_orig |-> TRUE,  filter_dest |-> TRUE]
      [] filter_type = "trip_O"  -> [known |-> TRUE,  filter_orig |-> TRUE,  filter_dest |-> FALSE]
      [] filter_type = "trip_D"  -> [known |-> TRUE,  filter_orig |-> FALSE, filter_dest |-> TRUE]
      [] OTHER                   -> [known |-> FALSE, filter_orig |-> FALSE, filter_dest |-> FALSE]

\* mutant: a row passes when either of the requested masks holds
ApplyOdMasksEither(rows, decision, gors) ==
    SelectSeq(rows,
              LAMBDA row : \/ ~decision.filter_orig /\ ~decision.filter_dest
                           \/ decision.filter_orig /\ row.TripOrigGOR_B02ID \in gors
                           \/ decision.filter_dest /\ row.TripDestGOR_B02ID \in gors)

\* "Finally, filter the data": the two isin masks, one after the other
ApplyOdMasks(rows, decision, gors) ==
    LET by_orig == IF decision.filter_orig
                   THEN SelectSeq(rows, LAMBDA row : row.TripOrigGOR_B02ID \in gors)
                   ELSE rows
    IN  IF decision.filter_dest
        THEN SelectSeq(by_orig, LAMBDA row : row.TripDestGOR_B02ID \in gors)
        ELSE by_orig

\* _apply_geo_filter: the dispatch on is_od_type()
GeoDispatch ==
    /\ geo_pc = "call"
    /\ IF IsOdType(trip_filter_type)
       THEN geo_pc' = "od_filter" /\ UNCHANGED geo_error
       ELSE /\ geo_pc' = "raised"
            /\ geo_error' = [message |-> "Don't know how to apply to filter",
                             mode    |-> trip_filter_type]
    /\ UNCHANGED <<geo_nts_data, geo_area, trip_filter_type, output_data>>
    /\ UNCHANGED <<cdVars, tldVars, genVars, fltVars, cpVars>>

\* _apply_od_geo_filter, lines 111-121: copy and transpose
GeoTranspose ==
    /\ geo_pc = "od_filter"
    /\ output_data' = Transpose(geo_nts_data)
    /\ geo_nts_data' = GeoCallerDataAfter(geo_nts_data)
    /\ geo_pc' = "transposed"
    /\ UNCHANGED <<geo_area, trip_filter_type, geo_error>>
    /\ UNCHANGED <<cdVars, tldVars, genVars, fltVars, cpVars>>

\* _apply_od_geo_filter, lines 123-145: decide, filter and return
GeoDecideAndFilter ==
    /\ geo_pc = "transposed"
    /\ LET decision == DecideFilter(trip_filter_type)
       IN  IF decision.known
           THEN /\ output_data' = ApplyOdMasks(output_data, decision, GetGors(geo_area))
                /\ geo_pc' = "returned"
                /\ UNCHANGED geo_error
           ELSE /\ geo_pc' = "raised"
                /\ geo_error' = [message |-> "Don't know how to apply the OD filter",
                                 mode    |-> trip_filter_type]
                /\ UNCHANGED output_data
    /\ UNCHANGED <<geo_nts_data, geo_area, trip_filter_type>>
    /\ UNCHANGED <<cdVars, tldVars, genVars, fltVars, cpVars>>

GeoRows ==
    [trip_origin : {"hb_to", "hb_from", "nhb"},
     TripOrigGOR_B02ID : {1, 2, 3},
     TripDestGOR_B02ID : {1, 2, 3},
     trip_mile : {1},
     trips : {5}]

InitGeo ==
    /\ IdleCD
    /\ IdleTLD
    /\ IdleGen
    /\ IdleFilter
    /\ IdleCopy
    /\ geo_pc = "call"
    /\ geo_nts_data \in SeqsUpTo(GeoRows, MaxGeoRows)
    /\ geo_area \in GeoAreas
    /\ trip_filter_type \in TripFilters
    /\ output_data = <<>>
    /\ geo_error = NoError

NextGeo == GeoDispatch \/ GeoTranspose \/ GeoDecideAndFilter

SpecGeo == InitGeo /\ [][NextGeo]_vars

KnownFilters == {"trip_OD", "trip_O", "trip_D"}

\* C11: a trip filter that is not origin-and-destination, origin-only or
\* destination-only ends the geo filter in an error that names the filter,
\* and nothing is returned; filters that are not of OD type are rejected
\* before the OD filter starts, OD type filters without a branch inside it.
C11_UnknownModeRaises ==
    /\ geo_pc = "returned" => trip_filter_type \in KnownFilters /\ geo_error = NoError
    /\ geo_pc = "raised" =>
          /\ trip_filter_type \notin KnownFilters
          /\ geo_error.mode = trip_filter_type
          /\ geo_error.message # "none"
    /\ ~IsOdType(trip_filter_type) => geo_pc \in {"call", "raised"}
    /\ (trip_filter_type \notin KnownFilters /\ geo_pc \notin {"call", "od_filter", "transposed"})
          => geo_pc = "raised"

C11_Witness ==
    /\ geo_pc = "raised"
    /\ trip_filter_type = "trip_OD_other"
    /\ geo_error.mode = "trip_OD_other"
    /\ Len(geo_nts_data) = 2

\* C20: after the transposition and before any origin/destination test,
\* every 'hb_to' row has its origin and destination codes exchanged, every
\* other row keeps them, all other columns are unchanged, and the caller's
\* record set is not modified.
C20_Transposition ==
    [][/\ geo_nts_data' = geo_nts_data
       /\ geo_pc' = "transposed" =>
             /\ Len(output_data') = Len(geo_nts_data)
             /\ \A i \in DOMAIN geo_nts_data :
                   LET before == geo_nts_data[i]
                       after  == output_data'[i]
                   IN  /\ after.trip_origin = before.trip_origin
                       /\ after.trip_mile = before.trip_mile
                       /\ after.trips = before.trips
                       /\ before.trip_origin = "hb_to" =>
                             /\ after.TripOrigGOR_B02ID = before.TripDestGOR_B02ID
                             /\ after.TripDestGOR_B02ID = before.TripOrigGOR_B02ID
                       /\ before.trip_origin # "hb_to" =>
                             /\ after.TripOrigGOR_B02ID = before.TripOrigGOR_B02ID
                             /\ after.TripDestGOR_B02ID = before.TripDestGOR_B02ID]_vars

C20_Witness ==
    /\ geo_pc = "transposed"
    /\ Len(geo_nts_data) = 2
    /\ geo_nts_data[1].trip_origin = "hb_to"
    /\ geo_nts_data[1].TripOrigGOR_B02ID = 1
    /\ geo_nts_data[1].TripDestGOR_B02ID = 3
    /\ output_data[1].TripOrigGOR_B02ID = 3
    /\ output_data[1].TripDestGOR_B02ID = 1
    /\ geo_nts_data[2].trip_origin = "hb_from"
    /\ output_data[2] = geo_nts_data[2]

\* the origin and destination codes of a row after direction normalization
SwappedOrig(row) ==
    IF row.trip_origin = "hb_to" THEN row.TripDestGOR_B02ID ELSE row.TripOrigGOR_B02ID

SwappedDest(row) ==
    IF row.trip_origin = "hb_to" THEN row.TripOrigGOR_B02ID ELSE row.TripDestGOR_B02ID

\* the rows a filter mode keeps, by their codes after normalization
KeptByMode(row) ==
    CASE trip_filter_type = "trip_O"  -> SwappedOrig(row) \in GetGors(geo_area)
      [] trip_filter_type = "trip_D"  -> SwappedDest(row) \in GetGors(geo_area)
      [] trip_filter_type = "trip_OD" -> /\ SwappedOrig(row) \in GetGors(geo_area)
                                         /\ SwappedDest(row) \in GetGors(geo_area)
      [] OTHER -> FALSE

\* C21: the rows _apply_od_geo_filter returns are, in their order, exactly
\* the rows whose normalized origin code is in the area's set (origin-only,
\* destination unconstrained), whose normalized destination code is in it
\* (destination-only, origin unconstrained), or both (origin-and-destination).
C21_ModeKeepsRows ==
    geo_pc = "returned" =>
        LET kept == SelectSeq(geo_nts_data, KeptByMode)
        IN  /\ Len(output_data) = Len(kept)
            /\ \A i \in DOMAIN kept :
                  /\ output_data[i].trip_origin = kept[i].trip_origin
                  /\ output_data[i].TripOrigGOR_B02ID = SwappedOrig(kept[i])
                  /\ output_data[i].TripDestGOR_B02ID = SwappedDest(kept[i])

C21_Witness ==
    /\ geo_pc = "returned"
    /\ trip_filter_type = "trip_O"
    /\ geo_area = "north"
    /\ Len(geo_nts_data) = 2
    /\ geo_nts_data[1].trip_origin = "hb_to"
    /\ geo_nts_data[1].TripOrigGOR_B02ID = 3
    /\ geo_nts_data[1].TripDestGOR_B02ID = 1
    /\ geo_nts_data[2].trip_origin = "nhb"
    /\ geo_nts_data[2].TripOrigGOR_B02ID = 3
    /\ Len(output_data) = 1
    /\ output_data[1].TripOrigGOR_B02ID = 1
    /\ output_data[1].TripDestGOR_B02ID = 3

\* the rows kept, by their codes as they are in the survey extract
KeptByRawCodes(row) ==
    LET gors == GetGors(geo_area)
        to   == row.trip_origin = "hb_to"
    IN  CASE trip_filter_type = "trip_OD" ->
                 row.TripOrigGOR_B02ID \in gors /\ row.TripDestGOR_B02ID \in gors
          [] trip_filter_type = "trip_O" ->
                 IF to THEN row.TripDestGOR_B02ID \in gors ELSE row.TripOrigGOR_B02ID \in gors
          [] trip_filter_type = "trip_D" ->
                 IF to THEN row.TripOrigGOR_B02ID \in gors ELSE row.TripDestGOR_B02ID \in gors
          [] OTHER -> FALSE

\* C26: in origin-and-destination mode the rows returned are those the two
\* masks keep on the untransposed record set (both raw codes in the area
\* set); in origin-only mode an 'hb_to' row is kept iff its raw destination
\* code is in the set, in destination-only mode iff its raw origin code is.
C26_RawCodes ==
    geo_pc = "returned" =>
        /\ output_data = Transpose(SelectSeq(geo_nts_data, KeptByRawCodes))
        /\ trip_filter_type = "trip_OD" =>
              output_data = Transpose(ApplyOdMasks(geo_nts_data, DecideFilter("trip_OD"),
                                                   GetGors(geo_area)))

C26_Witness ==
    /\ geo_pc = "returned"
    /\ trip_filter_type = "trip_OD"
    /\ geo_area = "north"
    /\ Len(geo_nts_data) = 2
    /\ geo_nts_data[1].trip_origin = "hb_to"
    /\ geo_nts_data[1].TripOrigGOR_B02ID = 1
    /\ geo_nts_data[1].TripDestGOR_B02ID = 2
    /\ geo_nts_data[2].trip_origin = "hb_to"
    /\ geo_nts_data[2].TripOrigGOR_B02ID = 1
    /\ geo_nts_data[2].TripDestGOR_B02ID = 3
    /\ Len(output_data) = 1
    /\ output_data[1].TripOrigGOR_B02ID = 2

-----------------------------------------------------------------------------
(* __init__ and tld_generator: the columns read and the files written,
   SpecGen *)

\* the column names a survey extract may hold
RawColumns ==
    {"trip_mile", "trips", "main_mode", "p", "gender", "soc", "ns", "start_time",
     "trip_direction", "hh_type", "TripOrigGOR_B02ID", "TripDestGOR_B02ID"}

\* the defaults of __init__'s trip_miles_col and trip_count_col
trip_miles_col == "trip_mile"

trip_count_col == "trips"

\* "Validate needed columns exist": the two checks of __init__
InitValidates(columns) ==
    trip_miles_col \in columns /\ trip_count_col \in columns

\* nts_to_segment_names, applied by DataFrame.rename to the columns it names
RenameColumn(c) ==
    CASE c = "main_mode"      -> "m"
      [] c = "gender"         -> "g"
      [] c = "start_time"     -> "tp"
      [] c = "trip_direction" -> "trip_origin"
      [] OTHER                -> c

RenameColumns(columns) == {RenameColumn(c) : c \in columns}

\* the columns _apply_od_geo_filter reads
GeoColumns == {"trip_origin", "TripOrigGOR_B02ID", "TripDestGOR_B02ID"}

\* the columns the filter of one segment reads
SegmentColumns(segment_params) == DOMAIN BuildDfFilter(segment_params, <<>>)

\* __init__
Construct ==
    /\ gen_pc = "new"
    /\ IF InitValidates(nts_import)
       THEN gen_pc' = "constructed" /\ UNCHANGED gen_error
       ELSE gen_pc' = "failed" /\ gen_error' = "ValueError in __init__"
    /\ UNCHANGED <<nts_import, nts_data, gen_segmentation, gen_trip_filter, gen_files>>
    /\ UNCHANGED <<cdVars, tldVars, geoVars, fltVars, cpVars>>

\* tld_generator: nts_data = self.nts_import.rename(columns=nts_to_segment_names)
GenRename ==
    /\ gen_pc = "constructed"
    /\ nts_data' = RenameColumns(nts_import)
    /\ gen_pc' = "renamed"
    /\ UNCHANGED <<nts_import, gen_segmentation, gen_error, gen_trip_filter, gen_files>>
    /\ UNCHANGED <<cdVars, tldVars, geoVars, fltVars, cpVars>>

\* self._map_dict(nts_data, self._household_type_to_ca, key="hh_type")
GenMapDict ==
    /\ gen_pc = "renamed"
    /\ IF "hh_type" \in nts_data
       THEN /\ nts_data' = nts_data \cup {"ca"}
            /\ gen_pc' = "mapped"
            /\ UNCHANGED gen_error
       ELSE /\ gen_pc' = "failed"
            /\ gen_error' = "KeyError in tld_generator"
            /\ UNCHANGED nts_data
    /\ UNCHANGED <<nts_import, gen_segmentation, gen_trip_filter, gen_files>>
    /\ UNCHANGED <<cdVars, tldVars, geoVars, fltVars, cpVars>>

\* self._handle_sample_period(nts_data, sample_period)
GenHandleSamplePeriod ==
    /\ gen_pc = "mapped"
    /\ IF "tp" \in nts_data
       THEN gen_pc' = "time_filtered" /\ UNCHANGED gen_error
       ELSE gen_pc' = "failed" /\ gen_error' = "KeyError in tld_generator"
    /\ UNCHANGED <<nts_import, nts_data, gen_segmentation, gen_trip_filter, gen_files>>
    /\ UNCHANGED <<cdVars, tldVars, geoVars, fltVars, cpVars>>

\* self._apply_geo_filter(nts_data, geo_area, trip_filter_type): the test of
\* is_od_type(), the columns of the transposition, the filter's branch
GenApplyGeoFilter ==
    /\ gen_pc = "time_filtered"
    /\ IF ~IsOdType(gen_trip_filter)
       THEN gen_pc' = "failed" /\ gen_error' = "ValueError in _apply_geo_filter"
       ELSE IF ~(GeoColumns \subseteq nts_data)
       THEN gen_pc' = "failed" /\ gen_error' = "KeyError in tld_generator"
       ELSE IF ~DecideFilter(gen_trip_filter).known
       THEN gen_pc' = "failed" /\ gen_error' = "ValueError in _apply_geo_filter"
       ELSE gen_pc' = "geo_filtered" /\ UNCHANGED gen_error
    /\ UNCHANGED <<nts_import, nts_data, gen_segmentation, gen_trip_filter, gen_files>>
    /\ UNCHANGED <<cdVars, tldVars, geoVars, fltVars, cpVars>>

\* mutant: build_tld writes its sample size log itself, before it returns
\* or raises
FilesAfterBuildTldWithReport(files, returned) ==
    Append(files, "3. {seg_name}_report.csv")

\* build_tld returns its three results, or raises, and writes no file
FilesAfterBuildTld(files, returned) == files

\* self.build_tld(...): every segment is filtered on the columns of its
\* parameters; whether a segment then passes depends on the rows
GenBuildTld ==
    /\ gen_pc = "geo_filtered"
    /\ IF \A k \in DOMAIN gen_segmentation : SegmentColumns(gen_segmentation[k]) \subseteq nts_data
       THEN \/ gen_pc' = "built" /\ UNCHANGED gen_error
            \/ gen_pc' = "failed" /\ gen_error' = "ValueError in build_tld"
       ELSE gen_pc' = "failed" /\ gen_error' = "KeyError in tld_generator"
    /\ gen_files' = FilesAfterBuildTld(gen_files, gen_pc' = "built")
    /\ UNCHANGED <<nts_import, nts_data, gen_segmentation, gen_trip_filter>>
    /\ UNCHANGED <<cdVars, tldVars, geoVars, fltVars, cpVars>>

\* the run log: open(tld_out_path / "1. input_params.txt", "w")
GenWriteRunLog ==
    /\ gen_pc = "built"
    /\ gen_files' = Append(gen_files, "1. input_params.txt")
    /\ gen_pc' = "log_written"
    /\ UNCHANGED <<nts_import, nts_data, gen_segmentation, gen_error, gen_trip_filter>>
    /\ UNCHANGED <<cdVars, tldVars, geoVars, fltVars, cpVars>>

\* the sample size log: safe_dataframe_to_csv(sample_size_log, report_path)
GenWriteReport ==
    /\ gen_pc = "log_written"
    /\ gen_files' = Append(gen_files, "3. {seg_name}_report.csv")
    /\ gen_pc' = "report_written"
    /\ UNCHANGED <<nts_import, nts_data, gen_segmentation, gen_error, gen_trip_filter>>
    /\ UNCHANGED <<cdVars, tldVars, geoVars, fltVars, cpVars>>

\* the compiled export: safe_dataframe_to_csv(full_export, full_export_path)
GenWriteFullExport ==
    /\ gen_pc = "report_written"
    /\ gen_files' = Append(gen_files, "2. full_export.csv")
    /\ gen_pc' = "export_written"
    /\ UNCHANGED <<nts_import, nts_data, gen_segmentation, gen_error, gen_trip_filter>>
    /\ UNCHANGED <<cdVars, tldVars, geoVars, fltVars, cpVars>>

\* the loop over name_to_distribution: tld.to_csv and tld.to_graph
GenWriteTlds ==
    /\ gen_pc = "export_written"
    /\ gen_files' = Append(gen_files, "{name}.csv")
    /\ gen_pc' = "returned"
    /\ UNCHANGED <<nts_import, nts_data, gen_segmentation, gen_error, gen_trip_filter>>
    /\ UNCHANGED <<cdVars, tldVars, geoVars, fltVars, cpVars>>

InitGen ==
    /\ IdleCD
    /\ IdleTLD
    /\ IdleGeo
    /\ IdleFilter
    /\ IdleCopy
    /\ gen_pc = "new"
    /\ nts_import \in SUBSET RawColumns
    /\ nts_data = {}
    /\ gen_segmentation \in Segmentations
    /\ gen_error = "none"
    /\ gen_trip_filter \in {"trip_OD", "trip_OD_other", "household"}
    /\ gen_files = <<>>

NextGen ==
    \/ Construct
    \/ GenRename
    \/ GenMapDict
    \/ GenHandleSamplePeriod
    \/ GenApplyGeoFilter
    \/ GenBuildTld
    \/ GenWriteRunLog
    \/ GenWriteReport
    \/ GenWriteFullExport
    \/ GenWriteTlds

SpecGen == InitGen /\ [][NextGen]_vars

\* the renamed columns the time filter, the geo filter and the segment
\* filters of the run read
ReferencedColumns ==
    {"tp"} \cup GeoColumns
        \cup UNION {SegmentColumns(gen_segmentation[k]) : k \in DOMAIN gen_segmentation}

\* C10 as stated: construction fails when the extract lacks a column that
\* the geo/time filter or a segmentation dimension reads after the rename,
\* and no missing column is first found during tld_generator.
C10_FailFastAtConstruction ==
    /\ gen_pc = "constructed" => ReferencedColumns \subseteq RenameColumns(nts_import)
    /\ gen_error # "KeyError in tld_generator"

\* the output files of a run, in the order the claim gives
OutputFiles ==
    <<"1. input_params.txt", "3. {seg_name}_report.csv", "2. full_export.csv", "{name}.csv">>

-----------------------------------------------------------------------------
(* SpecFilter: _filter_nts_data applied to every bounded input *)

FltRows ==
    [trip_origin : {"hb_to", "hb_from", "nhb"},
     p : {"1", "3", "4"},
     soc : {"NaN", "1"},
     ns : {"NaN", "1"},
     trip_mile : {1},
     trips : {5}]

\* segment_params dicts: plain dimensions, soc / ns with and without a
\* value, a user class, and a user class together with a purpose in either
\* insertion order
FltParams ==
    {<< <<"trip_origin", "hb">>,  <<"p", "1">> >>,
     << <<"trip_origin", "nhb">>, <<"p", "3">> >>,
     << <<"p", "1">>, <<"soc", "NaN">> >>,
     << <<"p", "1">>, <<"soc", "1">> >>,
     << <<"trip_origin", "hb">>, <<"soc", "1">>, <<"ns", "NaN">> >>,
     << <<"p", "3">>, <<"ns", "1">> >>,
     << <<"trip_origin", "hb">>, <<"uc", "other">> >>,
     << <<"uc", "commute">>, <<"soc", "NaN">> >>,
     << <<"uc", "other">>, <<"p", "1">> >>,
     << <<"p", "1">>, <<"uc", "other">> >>}

InitFilter ==
    /\ IdleCD
    /\ IdleTLD
    /\ IdleGen
    /\ IdleGeo
    /\ IdleCopy
    /\ flt_pc = "call"
    /\ flt_nts_data \in SeqsUpTo(FltRows, MaxFltRows)
    /\ flt_params \in FltParams
    /\ flt_result = <<>>

CallFilterNtsData ==
    /\ flt_pc = "call"
    /\ flt_result' = FilterNtsData(flt_nts_data, flt_params)
    /\ flt_pc' = "done"
    /\ UNCHANGED <<flt_nts_data, flt_params>>
    /\ UNCHANGED <<cdVars, tldVars, genVars, geoVars, cpVars>>

NextFilter == CallFilterNtsData

SpecFilter == InitFilter /\ [][NextFilter]_vars

\* segment_params without its item at position i
WithoutItem(params, i) ==
    [k \in 1 .. (Len(params) - 1) |-> IF k < i THEN params[k] ELSE params[k + 1]]

\* C13: a 'soc' or 'ns' item whose value is NaN filters nothing: the rows
\* returned are those the other items select, whatever their soc / ns; an
\* item with a value keeps, of those rows, the ones whose column equals it.
C13_NanSkipsFilter ==
    flt_pc = "done" =>
        \A i \in DOMAIN flt_params :
            flt_params[i][1] \in {"soc", "ns"} =>
                LET col   == flt_params[i][1]
                    val   == flt_params[i][2]
                    other == FilterNtsData(flt_nts_data, WithoutItem(flt_params, i))
                IN  IF val = "NaN"
                    THEN flt_result = other
                    ELSE flt_result = SelectSeq(other, LAMBDA row : row[col] = val)

C13_Witness ==
    /\ flt_pc = "done"
    /\ flt_params = << <<"p", "1">>, <<"soc", "NaN">> >>
    /\ Len(flt_nts_data) = 2
    /\ flt_nts_data[1].p = "1" /\ flt_nts_data[1].soc = "1"
    /\ flt_nts_data[2].p = "1" /\ flt_nts_data[2].soc = "NaN"
    /\ flt_result = flt_nts_data

\* the test one (dimension, value) item puts on a row
RowPasses(row, item) ==
    CASE item[1] = "trip_origin" ->
             IF item[2] = "hb" THEN row.trip_origin \in {"hb_to", "hb_from"}
                               ELSE row.trip_origin = "nhb"
      [] item[1] = "uc" -> row.p \in GetPurposes(item[2])
      [] item[1] \in {"soc", "ns"} -> item[2] = "NaN" \/ row[item[1]] = item[2]
      [] OTHER -> row[item[1]] = item[2]

\* C19 as stated: a row is returned iff it passes the test of every item of
\* the segment parameters, 'uc' and 'p' together included, in either order.
C19_Conjunctive ==
    flt_pc = "done" =>
        flt_result =
            SelectSeq(flt_nts_data,
                      LAMBDA row : \A i \in DOMAIN flt_params : RowPasses(row, flt_params[i]))

\* C22: a trip_origin item with value 'hb' keeps exactly the rows (of those
\* the other items select) whose trip direction is 'hb_to' or 'hb_from', the
\* value 'nhb' exactly those whose direction is 'nhb'.
C22_TripOriginGroups ==
    flt_pc = "done" =>
        \A i \in DOMAIN flt_params :
            flt_params[i][1] = "trip_origin" =>
                LET other == FilterNtsData(flt_nts_data, WithoutItem(flt_params, i))
                    kept  == IF flt_params[i][2] = "hb" THEN {"hb_to", "hb_from"} ELSE {"nhb"}
                IN  /\ flt_result = SelectSeq(other, LAMBDA row : row.trip_origin \in kept)
                    /\ \A r \in DOMAIN flt_result :
                          flt_params[i][2] = "hb" <=> flt_result[r].trip_origin # "nhb"

C22_Witness ==
    /\ flt_pc = "done"
    /\ flt_params = << <<"trip_origin", "hb">>, <<"p", "1">> >>
    /\ Len(flt_nts_data) = 2
    /\ flt_nts_data[1].trip_origin = "hb_to" /\ flt_nts_data[1].p = "1"
    /\ flt_nts_data[2].trip_origin = "nhb" /\ flt_nts_data[2].p = "1"
    /\ flt_result = <<flt_nts_data[1]>>

-----------------------------------------------------------------------------
(* build_output_path, generate_output_paths, copy_across_tps and copy_tlds,
   SpecCopy.  A string is the sequence of its pieces, ".csv" being a piece of
   its own; a path is the sequence of its components; a file is its
   directory, the stem of its name, the time period suffixes and the
   extension. *)

\* a string without ".csv" in it
Str(text) == <<text>>

\* mutant: the name keeps its extension
GetNameAndFnameKeepExt(band_or_seg_name) ==
    IF \E i \in DOMAIN band_or_seg_name : band_or_seg_name[i] = ".csv"
    THEN [fname |-> band_or_seg_name, name |-> band_or_seg_name]
    ELSE [fname |-> band_or_seg_name \o <<".csv">>, name |-> band_or_seg_name]

\* _get_name_and_fname: name.replace(".csv", "") when ".csv" is in the name
GetNameAndFname(band_or_seg_name) ==
    IF \E i \in DOMAIN band_or_seg_name : band_or_seg_name[i] = ".csv"
    THEN [fname |-> band_or_seg_name,
          name  |-> SelectSeq(band_or_seg_name, LAMBDA piece : piece # ".csv")]
    ELSE [fname |-> band_or_seg_name \o <<".csv">>, name |-> band_or_seg_name]

\* build_output_path: os.path.join of the seven components
BuildOutputPath(args) ==
    << Str(args.output_folder),
       Str(args.geo_area),
       Str(args.trip_filter_type),
       GetNameAndFname(args.bands_name).name,
       Str(args.segmentation.name),
       Str(args.sample_period),
       Str(args.cost_units) >>

\* f"{tld_name}.csv"
Fname(tld_name) == [stem |-> tld_name, tp |-> <<>>, ext |-> ".csv"]

\* directory / fname
File(dir, fname) ==
    [dir |-> dir, stem |-> fname.stem, tp |-> fname.tp, ext |-> fname.ext]

\* generate_output_paths: a file name for every segment of the segmentation
GenerateOutputPaths(args) ==
    [base_path |-> BuildOutputPath(args),
     fnames    |-> [k \in DOMAIN args.segmentation.segments |->
                       Fname(GenerateTldName(args.segmentation.segments[k]))]]

\* sample_period.get_time_periods()
GetTimePeriods(sample_period) ==
    IF sample_period = "weekdays" THEN <<1, 2, 3, 4>> ELSE <<5, 6>>

\* mutant: the time period is left out of the new name
ReplaceCsvNoPeriod(fname, tp) == fname

\* fname.replace(".csv", f"_tp{tp}.csv")
ReplaceCsv(fname, tp) ==
    IF fname.ext = ".csv" THEN [fname EXCEPT !.tp = @ \o <<tp>>] ELSE fname

\* the copy_files list of copy_across_tps: for fname, for tp
TpCopyFiles(args) ==
    LET paths       == GenerateOutputPaths(args)
        tps         == GetTimePeriods(args.sample_period)
        output_path == paths.base_path \o <<Str("tp_copied")>>
    IN  [n \in 1 .. (Len(paths.fnames) * Len(tps)) |->
            LET fname == paths.fnames[((n - 1) \div Len(tps)) + 1]
                tp    == tps[((n - 1) % Len(tps)) + 1]
            IN  << File(paths.base_path, fname),
                   File(output_path, ReplaceCsv(fname, tp)) >>]

\* file_ops.copy_defined_files: one (src_dir / in, dst_dir / out) pair per
\* row of the copy definition
DefinedCopyFiles(copy_definition, src_dir, dst_dir) ==
    [n \in DOMAIN copy_definition |->
        << File(src_dir, Fname(copy_definition[n][1])),
           File(dst_dir, Fname(copy_definition[n][2])) >>]

\* mutant: the first failed copy ends the operation and the rest is dropped
PendingAfterFailureAbort(pending, n) == {}

\* the copy helper goes on with the other pairs after a failed copy
PendingAfterFailure(pending, n) == pending \ {n}

\* the pairs the copy helper may take next: the first one left when
\* process_count is 0 (a loop), any one left with a worker pool
NextPairs(pending, process_count) ==
    IF process_count = 0
    THEN {n \in pending : \A other \in pending : n <= other}
    ELSE pending

\* the folder the copies and the run log of the operation go to
OutputPath(args) ==
    IF args.op = "copy_across_tps"
    THEN BuildOutputPath(args) \o <<Str("tp_copied")>>
    ELSE BuildOutputPath(args) \o <<GetNameAndFname(args.copy_definition_name).name>>

\* output_path / self._running_log_fname
RunLogFile(args) ==
    File(OutputPath(args), [stem |-> Str("1. input_params"), tp |-> <<>>, ext |-> ".txt"])

\* copy_across_tps up to the call of the copy helper
CopyAcrossTps ==
    /\ cp_pc = "call"
    /\ cp_args.op = "copy_across_tps"
    /\ base_path' = GenerateOutputPaths(cp_args).base_path
    /\ copy_files' = TpCopyFiles(cp_args)
    /\ copy_pending' = DOMAIN TpCopyFiles(cp_args)
    /\ cp_pc' = "copying"
    /\ UNCHANGED <<cp_args, disk, copy_failed, copy_report>>
    /\ UNCHANGED <<cdVars, tldVars, genVars, geoVars, fltVars>>

\* copy_tlds up to the copies of file_ops.copy_defined_files
CopyTlds ==
    /\ cp_pc = "call"
    /\ cp_args.op = "copy_tlds"
    /\ base_path' = BuildOutputPath(cp_args)
    /\ copy_files' = DefinedCopyFiles(cp_args.copy_def, BuildOutputPath(cp_args),
                                      OutputPath(cp_args))
    /\ copy_pending' = DOMAIN cp_args.copy_def
    /\ cp_pc' = "copying"
    /\ UNCHANGED <<cp_args, disk, copy_failed, copy_report>>
    /\ UNCHANGED <<cdVars, tldVars, genVars, geoVars, fltVars>>

\* one file copy that succeeds: the source exists
CopyFileOk ==
    /\ cp_pc = "copying"
    /\ \E n \in NextPairs(copy_pending, cp_args.process_count) :
          /\ copy_files[n][1] \in disk
          /\ disk' = disk \cup {copy_files[n][2]}
          /\ copy_pending' = copy_pending \ {n}
    /\ UNCHANGED <<cp_pc, cp_args, copy_files, copy_failed, base_path, copy_report>>
    /\ UNCHANGED <<cdVars, tldVars, genVars, geoVars, fltVars>>

\* one file copy that fails: the source does not exist
CopyFileFails ==
    /\ cp_pc = "copying"
    /\ \E n \in NextPairs(copy_pending, cp_args.process_count) :
          /\ copy_files[n][1] \notin disk
          /\ copy_failed' = copy_failed \cup {n}
          /\ copy_pending' = PendingAfterFailure(copy_pending, n)
    /\ UNCHANGED <<cp_pc, cp_args, copy_files, disk, base_path, copy_report>>
    /\ UNCHANGED <<cdVars, tldVars, genVars, geoVars, fltVars>>

\* the copy helper returns with its failures; the run log is written
CopyFinish ==
    /\ cp_pc = "copying"
    /\ copy_pending = {}
    /\ copy_report' = copy_failed
    /\ disk' = disk \cup {RunLogFile(cp_args)}
    /\ cp_pc' = "done"
    /\ UNCHANGED <<cp_args, copy_files, copy_pending, copy_failed, base_path>>
    /\ UNCHANGED <<cdVars, tldVars, genVars, geoVars, fltVars>>

\* band set names, with and without the extension
BandsNames ==
    {<<"dm_highway_bands">>, <<"dm_highway_bands", ".csv">>,
     <<"dm_rail_bands">>, <<"dm_rail_bands", ".csv">>}

CopySegmentations ==
    {[name     |-> "hb_p",
      segments |-> << << <<"trip_origin", "hb">>, <<"p", "1">> >> >>],
     [name     |-> "hb_p_soc",
      segments |-> << << <<"trip_origin", "hb">>, <<"p", "1">>, <<"soc", "1">> >>,
                      << <<"trip_origin", "hb">>, <<"p", "1">>, <<"soc", "2">> >> >>]}

\* a copy definition: every segment's file goes to the next segment's name
CopyDefinitionOf(segments) ==
    [k \in DOMAIN segments |->
        << GenerateTldName(segments[k]),
           GenerateTldName(segments[(k % Len(segments)) + 1]) >>]

CopyArgs ==
    {[op                   |-> op,
      output_folder        |-> "tld_home",
      geo_area             |-> geo,
      trip_filter_type     |-> filter,
      bands_name           |-> bands_name,
      segmentation         |-> seg,
      sample_period        |-> period,
      cost_units           |-> units,
      process_count        |-> process_count,
      copy_definition_name |-> definition,
      copy_def             |-> CopyDefinitionOf(seg.segments)] :
        op \in {"copy_across_tps", "copy_tlds"},
        geo \in GeoAreas,
        filter \in {"trip_OD", "trip_O"},
        bands_name \in BandsNames,
        seg \in CopySegmentations,
        period \in {"weekdays", "weekends"},
        units \in CostUnits,
        process_count \in {0, 2},
        definition \in {<<"soc_copy">>, <<"soc_copy", ".csv">>}}

\* the segment files a TLD run wrote: one per segment that passed
WrittenFiles(args, passed) ==
    {File(BuildOutputPath(args), Fname(GenerateTldName(args.segmentation.segments[k]))) :
        k \in passed}

InitCopy ==
    /\ IdleCD
    /\ IdleTLD
    /\ IdleGen
    /\ IdleGeo
    /\ IdleFilter
    /\ cp_pc = "call"
    /\ cp_args \in CopyArgs
    /\ disk \in {WrittenFiles(cp_args, passed) :
                    passed \in (SUBSET DOMAIN cp_args.segmentation.segments) \ {{}}}
    /\ copy_files = <<>>
    /\ copy_pending = {}
    /\ copy_failed = {}
    /\ base_path = <<>>
    /\ copy_report = {}

NextCopy ==
    \/ CopyAcrossTps
    \/ CopyTlds
    \/ CopyFileOk
    \/ CopyFileFails
    \/ CopyFinish

SpecCopy == InitCopy /\ [][NextCopy]_vars

CopyStarted == cp_pc \in {"copying", "done"}

\* the band set a band name stands for, with or without ".csv"
BandSetOf(bands_name) ==
    CHOOSE stem \in {<<"dm_highway_bands">>, <<"dm_rail_bands">>} :
        bands_name \in {stem, stem \o <<".csv">>}

\* C17: the directory build_output_path returns is output_root / geo_area /
\* trip_filter_mode / band_set_name / segmentation_name / sample_period /
\* cost_units in that order, the band set name being the band name without
\* '.csv'; a second call with equal arguments, or with the other spelling
\* of the same band set, returns the same directory.
C17_DeterministicPath ==
    CopyStarted =>
        /\ Len(base_path) = 7
        /\ base_path[1] = <<cp_args.output_folder>>
        /\ base_path[2] = <<cp_args.geo_area>>
        /\ base_path[3] = <<cp_args.trip_filter_type>>
        /\ base_path[4] = BandSetOf(cp_args.bands_name)
        /\ base_path[5] = <<cp_args.segmentation.name>>
        /\ base_path[6] = <<cp_args.sample_period>>
        /\ base_path[7] = <<cp_args.cost_units>>
        /\ BuildOutputPath(cp_args) = base_path
        /\ \A other \in BandsNames :
              BandSetOf(other) = BandSetOf(cp_args.bands_name) =>
                  BuildOutputPath([cp_args EXCEPT !.bands_name = other]) = base_path

C17_Witness ==
    /\ cp_pc = "copying"
    /\ cp_args.bands_name = <<"dm_rail_bands", ".csv">>
    /\ base_path[4] = <<"dm_rail_bands">>
    /\ BuildOutputPath([cp_args EXCEPT !.bands_name = <<"dm_rail_bands">>]) = base_path

\* the segment files the TLD run wrote
WrittenSegmentFiles == {f \in disk : f.dir = base_path}

\* the destination of a written file for a time period
TpDestination(f, tp) ==
    [f EXCEPT !.dir = base_path \o << <<"tp_copied">> >>, !.tp = <<tp>>]

\* C15: copy_across_tps schedules, for every written segment file and every
\* time period N of the sample period, exactly one (source, destination)
\* pair, the destination being the source's name with '_tp<N>' before
\* '.csv' in the 'tp_copied' subfolder, and no pair whose source was never
\* written: (written files) x (periods) pairs in all.
C15_OnlyWrittenFilesScheduled ==
    (CopyStarted /\ cp_args.op = "copy_across_tps") =>
        LET tps == GetTimePeriods(cp_args.sample_period)
        IN  /\ \A f \in WrittenSegmentFiles :
                  \A t \in DOMAIN tps :
                      Cardinality({n \in DOMAIN copy_files :
                                      copy_files[n] = <<f, TpDestination(f, tps[t])>>}) = 1
            /\ \A n \in DOMAIN copy_files : copy_files[n][1] \in WrittenSegmentFiles
            /\ Len(copy_files) = Cardinality(WrittenSegmentFiles) * Len(tps)

Destinations == {copy_files[n][2] : n \in DOMAIN copy_files}

\* C30: in copy_across_tps the destinations of the scheduled pairs are
\* pairwise different, and none of them is the run log or the source of a
\* pair: no two copies write the same file and no copy writes a file that
\* another one reads.
C30_DistinctDestinations ==
    (CopyStarted /\ cp_args.op = "copy_across_tps") =>
        /\ \A i, j \in DOMAIN copy_files :
              /\ i # j => copy_files[i][2] # copy_files[j][2]
              /\ copy_files[i][2] # copy_files[j][1]
        /\ RunLogFile(cp_args) \notin Destinations
        /\ Cardinality(Destinations) =
               Len(cp_args.segmentation.segments) * Len(GetTimePeriods(cp_args.sample_period))

C30_Witness ==
    /\ cp_pc = "copying"
    /\ cp_args.op = "copy_across_tps"
    /\ cp_args.process_count = 2
    /\ cp_args.sample_period = "weekdays"
    /\ Len(cp_args.segmentation.segments) = 2
    /\ Cardinality(Destinations) = 8
    /\ Cardinality(copy_pending) = 6

=============================================================================
